---- MODULE Spec2Model ----
(***************************************************************************)
(* System-log-to-docker forwarder (main.py, healthcheck.py).               *)
(*                                                                         *)
(* A file is a sequence of tokens: a token is either the line terminator   *)
(* NL or one whitespace-delimited word.  Offsets and sizes count tokens.   *)
(* A file identity (st_dev, st_ino) is an inode number: one device.        *)
(***************************************************************************)
EXTENDS Integers, Sequences, FiniteSets, TLC

VARIABLES
    fs_dir,             \* path -> inode linked at that path, 0 when absent
    fs_data,            \* inode -> content of the file
    sources,            \* LogForwarder.sources after load()
    notifications,      \* LogForwarder.notifications after load()
    offsets,            \* LogForwarder.offsets: identity -> offset
    key_to_path,        \* LogForwarder.key_to_path
    touched_keys,       \* LogForwarder.touched_keys
    shutdown_requested, \* LogForwarder.shutdown_requested
    pc,                 \* position of run() in its loop
    si,                 \* index of the source the tick is processing
    todo,               \* paths of sorted(glob.glob(pattern)) not yet visited
    out,                \* history: what the tick under way has printed and posted
    last,               \* history: the latest visit of a path by process_source
    mark,               \* history: inode -> size when last read to its end, -1 if replaced since
    disc,               \* history: inode -> size at discovery, -1 if replaced since
    tick0,              \* history: offsets and key_to_path when the tick began
    owner,              \* history: inode -> index of the source that was first in
                        \* the tick under way to discover or read the file, else 0
    health,             \* files of /tmp: name -> content, Absent while not there
    now,                \* time.time()
    watchdog,           \* what the latest run of healthcheck.py returned
    given,              \* the line given to a function of the classifier
    returned,           \* what that function returned
    env_left            \* events the environment may still cause: writes,
                        \* rotations, faults of a system call, signals

vars == <<fs_dir, fs_data, sources, notifications, offsets, key_to_path,
          touched_keys, shutdown_requested, pc, si, todo, out, last, mark,
          disc, tick0, owner, health, now, watchdog, given, returned,
          env_left>>

----------------------------------------------------------------------------
(* Bounds of the model *)

MaxLen == 4
MaxEnv == 2
MaxLine == 3
MaxEmitLine == 2

----------------------------------------------------------------------------
(* Tokens, lines *)

NL == "NL"
STAMP == "Jan_5_03:04:05"

None == "None"

Max(a, b) == IF a >= b THEN a ELSE b

\* str.upper() on one word
Upper(w) ==
    CASE w = "error" -> "ERROR"
      [] w = "Warning" -> "WARNING"
      [] w = "info" -> "INFO"
      [] OTHER -> w

\* needle is a substring of word (re.search of a plain word, case-sensitive)
Contains(word, needle) ==
    \/ word = needle
    \/ word = "ERRORS" /\ needle = "ERROR"
    \/ word = "WARNING" /\ needle = "WARN"

\* position of the first terminator in buf, 0 when there is none
FirstNL(buf) ==
    IF \E i \in 1..Len(buf) : buf[i] = NL
    THEN CHOOSE i \in 1..Len(buf) :
            buf[i] = NL /\ \A j \in 1..(i - 1) : buf[j] # NL
    ELSE 0

RECURSIVE ReadLines(_)
\* `for line in fh`: each line with its terminator; the last one may have none
ReadLines(buf) ==
    IF buf = <<>> THEN <<>>
    ELSE LET i == FirstNL(buf)
         IN  IF i = 0 THEN <<buf>>
             ELSE <<SubSeq(buf, 1, i)>> \o ReadLines(SubSeq(buf, i + 1, Len(buf)))

RECURSIVE Rstrip(_)
\* line.rstrip("\n")
Rstrip(line) ==
    IF line # <<>> /\ line[Len(line)] = NL
    THEN Rstrip(SubSeq(line, 1, Len(line) - 1))
    ELSE line

----------------------------------------------------------------------------
(* Line classification *)

\* a pattern that does not list INFO
LevelWords_noinfo == {"CRITICAL", "ERROR", "WARN", "WARNING"}

\* the alternatives of LEVEL_PATTERN
LevelWords == {"CRITICAL", "ERROR", "WARN", "WARNING", "INFO"}

\* LEVEL_PATTERN.search(line): index of the leftmost matching word, 0 if none
LevelSearch(line) ==
    IF \E i \in 1..Len(line) : Upper(line[i]) \in LevelWords
    THEN CHOOSE i \in 1..Len(line) :
            /\ Upper(line[i]) \in LevelWords
            /\ \A j \in 1..(i - 1) : Upper(line[j]) \notin LevelWords
    ELSE 0

detect_level(line) ==
    LET found == LevelSearch(line)
    IN  IF found = 0 THEN "INFO"
        ELSE LET level == Upper(line[found])
             IN  IF level = "WARNING" THEN "WARN" ELSE level

\* SYSLOG_PREFIX_PATTERN.match(line): stamp, one host word, a non-empty rest
SyslogMatch(line) ==
    /\ Len(line) >= 3
    /\ line[1] = STAMP

\* a forwarder that strips the host of every source
normalize_line_always(source, line) ==
    IF ~SyslogMatch(line) THEN line
    ELSE <<line[1]>> \o SubSeq(line, 3, Len(line))

normalize_line(source, line) ==
    IF ~source.strip_syslog_hostname THEN line
    ELSE IF ~SyslogMatch(line) THEN line
    ELSE <<line[1]>> \o SubSeq(line, 3, Len(line))

\* source.regex of a source whose section has no regex (None)
NoRegex == {}

\* source.regex.search(line); a regex is a set of alternative plain words
RegexSearch(regex, line) ==
    \E i \in 1..Len(line) : \E w \in regex : Contains(line[i], w)

\* a forwarder that filters the line after it has normalized it
PassesFilter_normalized(source, line) ==
    ~(source.regex # NoRegex
      /\ ~RegexSearch(source.regex,
                      IF SyslogMatch(line) /\ source.strip_syslog_hostname
                      THEN <<line[1]>> \o SubSeq(line, 3, Len(line)) ELSE line))

\* emit_line's first test: the line goes on
PassesFilter(source, line) ==
    ~(source.regex # NoRegex /\ ~RegexSearch(source.regex, line))

\* NotificationConfig.ntfy_url ("" and None are both falsy)
ntfy_url(n) ==
    IF n.ntfy_url_override \notin {None, ""} THEN n.ntfy_url_override
    ELSE IF n.ntfy_base_url \in {None, ""} \/ n.topic \in {None, ""} THEN None
    ELSE "https://ntfy.sh/alerts"

\* a forwarder that posts every line of a source with notifications enabled
ShouldNotify_anylevel(source, n, level) ==
    /\ source.notifications_enabled
    /\ ntfy_url(n) \notin {None, ""}

\* the condition under which emit_line calls notify_ntfy
ShouldNotify(source, n, level) ==
    /\ source.notifications_enabled
    /\ ntfy_url(n) \notin {None, ""}
    /\ level \in source.notification_levels

----------------------------------------------------------------------------
(* Output of a tick *)

Console(source, level, msg) ==
    [kind |-> "console", src |-> source.name, level |-> level, msg |-> msg,
     result |-> "printed"]

Webhook(source, level, msg, result) ==
    [kind |-> "webhook", src |-> source.name, level |-> level, msg |-> msg,
     result |-> result]

Diag(src, result) ==
    [kind |-> "diag", src |-> src, level |-> "ERROR", msg |-> <<>>,
     result |-> result]

\* notify_ntfy: hook is what urlopen does, "ok" or the exception it raises
notify_ntfy(source, level, msg, hook) ==
    IF hook = "ok"
    THEN [events |-> <<Webhook(source, level, msg, "ok")>>, raised |-> None]
    ELSE IF hook = "URLError"
    THEN [events |-> <<Webhook(source, level, msg, hook),
                       Diag("notification", "Failed to deliver")>>,
          raised |-> None]
    ELSE [events |-> <<Webhook(source, level, msg, hook)>>, raised |-> hook]

emit_line(source, n, line, hook) ==
    IF ~PassesFilter(source, line)
    THEN [events |-> <<>>, raised |-> None]
    ELSE LET normalized_line == normalize_line(source, line)
             level == detect_level(normalized_line)
             logged == <<Console(source, level, normalized_line)>>
         IN  IF ShouldNotify(source, n, level)
             THEN LET r == notify_ntfy(source, level, normalized_line, hook)
                  IN  [events |-> logged \o r.events, raised |-> r.raised]
             ELSE [events |-> logged, raised |-> None]

\* history: the file, the position and the raw text an output came from
Tag(events, key, pos, raw) ==
    [i \in 1..Len(events) |->
        events[i] @@ [key |-> key, pos |-> pos, raw |-> raw]]

\* history: the path at which the file was read
AtPath(events, path) ==
    [i \in 1..Len(events) |-> events[i] @@ [path |-> path]]

NoFault == [kind |-> "none", at |-> 0, how |-> "ok"]

RECURSIVE EmitLines(_, _, _, _, _, _, _)
\* the loop `for line in fh: self.emit_line(source, line.rstrip("\n"))` from
\* line i on; pos is the position of line i in the file
EmitLines(source, n, key, lines, pos, fault, i) ==
    IF fault.kind = "read" /\ fault.at = i
    THEN [events |-> <<>>, raised |-> "OSError"]
    ELSE IF i > Len(lines)
    THEN [events |-> <<>>, raised |-> None]
    ELSE LET hook == IF fault.kind = "hook" /\ fault.at = i
                     THEN fault.how ELSE "ok"
             r == emit_line(source, n, Rstrip(lines[i]), hook)
             tagged == Tag(r.events, key, pos, lines[i])
         IN  IF r.raised # None
             THEN [events |-> tagged, raised |-> r.raised]
             ELSE LET rest == EmitLines(source, n, key, lines,
                                        pos + Len(lines[i]), fault, i + 1)
                  IN  [events |-> tagged \o rest.events, raised |-> rest.raised]

RECURSIVE TotalLen(_)
TotalLen(lines) ==
    IF lines = <<>> THEN 0 ELSE Len(Head(lines)) + TotalLen(Tail(lines))

----------------------------------------------------------------------------
(* Offset tracking *)

\* a forwarder that replays a file it sees for the first time
InitialOffset_replay(st_size) == 0

\* self.offsets[key] = stat_result.st_size, for an identity seen first
InitialOffset(st_size) == st_size

\* a forwarder that reads every file from its start at every tick
StartOffset_zero(offset, st_size) == 0

\* a forwarder that starts every read at the end of the file
StartOffset_end(offset, st_size) == st_size

\* a forwarder that also starts over when the size equals the offset
StartOffset_eager(offset, st_size) == IF st_size <= offset THEN 0 ELSE offset

\* a forwarder that does not notice that a file shrank
StartOffset_noreset(offset, st_size) == offset

\* offset = self.offsets[key]; if stat_result.st_size < offset: offset = 0
StartOffset(offset, st_size) == IF st_size < offset THEN 0 ELSE offset

\* a forwarder that stores the offset at which the first line it read ends
Tell_first(offset, lines) ==
    IF lines = <<>> THEN offset ELSE offset + Len(lines[1])

\* a forwarder that stores 0 whatever it read
Tell_rewind(offset, lines) == 0

\* a forwarder that stores the offset it started from
Tell_stuck(offset, lines) == offset

\* fh.tell() once the iteration has reached the end of the file
Tell(offset, lines) == offset + TotalLen(lines)

\* a forwarder that forgets every identity at the end of a tick
StaleKeys_all(offs, touched) == DOMAIN offs

\* a forwarder that never forgets an identity
StaleKeys_none(offs, touched) == {}

\* stale = [key for key in self.offsets.keys() if key not in self.touched_keys]
StaleKeys(offs, touched) == {key \in DOMAIN offs : key \notin touched}

----------------------------------------------------------------------------
(* File system and configuration *)

Paths == {"a", "b"}
Inodes == {1, 2}
HookFailures == {"URLError", "OSError", "Exception"}

\* a forwarder that takes the paths in reverse order
PathBefore_reverse(p, q) == p = "b" /\ q = "a"

\* lexicographic order of the paths
PathBefore(p, q) == p = "a" /\ q = "b"

\* fnmatch of a path against a source's pattern
GlobMatch(pattern, p) == pattern = "*" \/ pattern = p

RECURSIVE SortPaths(_)
\* sorted(...) of a set of paths
SortPaths(S) ==
    IF S = {} THEN <<>>
    ELSE LET first == CHOOSE p \in S : \A q \in S : q = p \/ PathBefore(p, q)
         IN  <<first>> \o SortPaths(S \ {first})

\* sorted(glob.glob(source.pattern)): the existing paths the pattern matches
SortedGlob(dir, pattern) ==
    SortPaths({p \in Paths : dir[p] # 0 /\ GlobMatch(pattern, p)})

Linked(dir) == {dir[p] : p \in Paths} \ {0}

Source(name, pattern, regex, strip, enabled, levels) ==
    [name |-> name, pattern |-> pattern, regex |-> regex,
     strip_syslog_hostname |-> strip, notifications_enabled |-> enabled,
     notification_levels |-> levels]

\* NotificationConfig(ntfy_base_url, topic, ntfy_url_override)
Notification(base, topic, override) ==
    [ntfy_base_url |-> base, topic |-> topic, ntfy_url_override |-> override]

\* what one write appends; what a file holds at start, or when created or rewritten
Chunks == {<<"x">>, <<NL>>, <<"x", NL>>, <<"ERROR", NL>>, <<STAMP, "ERROR", "x", NL>>}
InitContents == {<<>>, <<"x", NL>>}
NewContents == {<<>>, <<"ERROR", NL>>}

MainSources ==
    <<Source("app", "b", NoRegex, TRUE, TRUE, {"ERROR", "CRITICAL"}),
      Source("all", "*", {"ERROR", "CRITICAL"}, TRUE, TRUE, {"INFO", "ERROR"})>>

MainNotification == Notification("https://ntfy.sh", "alerts", None)

\* HEALTH_FILE of main.py and HEALTH_FILE of healthcheck.py
HEALTH_FILE == "/tmp/system-log-to-docker.health"
healthcheck_HEALTH_FILE == "/tmp/docklog-forwarder.health"
HealthFiles == {HEALTH_FILE, healthcheck_HEALTH_FILE}

\* MAX_AGE_SECONDS of healthcheck.py, in units of the clock of the model
MAX_AGE_SECONDS == 1

\* a file that does not exist
Absent == [form |-> "absent", status |-> None, timestamp |-> 0, sources |-> <<>>]

\* main() of healthcheck.py at time t: the exit code and what it prints.
\* form is "malformed" for a file json.load rejects, "no_timestamp" for a
\* payload whose timestamp is not an int
healthcheck_main(tmp, t) ==
    LET payload == tmp[healthcheck_HEALTH_FILE]
    IN  IF payload.form = "absent"
        THEN [code |-> 1, message |-> "health file missing"]
        ELSE IF payload.form = "malformed"
        THEN [code |-> 1, message |-> "failed to read health file"]
        ELSE IF payload.form = "no_timestamp"
        THEN [code |-> 1, message |-> "invalid timestamp"]
        ELSE IF t - payload.timestamp > MAX_AGE_SECONDS
        THEN [code |-> 1, message |-> "stale heartbeat"]
        ELSE [code |-> 0, message |-> "ok"]

\* healthcheck.py has not run
NotRun == [code |-> -1, message |-> None, at |-> 0, artifact |-> Absent]

NoResult ==
    [fn |-> "none", level |-> None, text |-> <<>>, events |-> <<>>, raised |-> None]

NoStep ==
    [kind |-> "none", key |-> 0, src |-> 0, path |-> None, size |-> 0,
     old |-> -1, start |-> 0, first |-> 1, mark |-> -1, raised |-> None]

\* history: source i is the first of the tick to take the file, if none did
First(own, key, i) == IF own[key] = 0 THEN [own EXCEPT ![key] = i] ELSE own

Step(kind, key, path, size, old, start, raised) ==
    [kind |-> kind, key |-> key, src |-> si, path |-> path, size |-> size,
     old |-> old, start |-> start, first |-> Len(out) + 1,
     mark |-> IF key = 0 THEN -1 ELSE mark[key], raised |-> raised]

Init ==
    /\ fs_dir \in {[a |-> 1, b |-> 2], [a |-> 1, b |-> 0]}
    /\ fs_data \in [Inodes -> InitContents]
    /\ \A k \in Inodes \ Linked(fs_dir) : fs_data[k] = <<>>
    /\ sources = MainSources
    /\ notifications = MainNotification
    /\ offsets = <<>>
    /\ key_to_path = <<>>
    /\ touched_keys = {}
    /\ shutdown_requested = FALSE
    /\ pc = "loop"
    /\ si = 1
    /\ todo = <<>>
    /\ out = <<>>
    /\ last = NoStep
    /\ mark = [k \in Inodes |-> -1]
    /\ disc = [k \in Inodes |-> -1]
    /\ tick0 = [offsets |-> <<>>, key_to_path |-> <<>>]
    /\ owner = [k \in Inodes |-> 0]
    /\ health = [f \in HealthFiles |-> Absent]
    /\ now = 0
    /\ watchdog = NotRun
    /\ given = <<>>
    /\ returned = NoResult
    /\ env_left = MaxEnv

config == <<sources, notifications, given, returned>>
tracker == <<offsets, key_to_path, touched_keys>>
files == <<fs_dir, fs_data>>
budget == <<env_left, tick0, owner>>
heart == <<health, now, watchdog>>

----------------------------------------------------------------------------
(* run(): the loop *)

\* a loop that does not look at the flag
LoopTest_ignore(requested) == TRUE

\* the test of `while not self.shutdown_requested:`
LoopTest(requested) == ~requested

\* the loop test found true: a tick begins
TickStart ==
    /\ pc = "loop"
    /\ LoopTest(shutdown_requested)
    /\ touched_keys' = {}
    /\ si' = 1
    /\ todo' = <<>>
    /\ pc' = "glob"
    /\ tick0' = [offsets |-> offsets, key_to_path |-> key_to_path]
    /\ owner' = [k \in Inodes |-> 0]
    /\ UNCHANGED <<files, config, offsets, key_to_path, shutdown_requested,
                   out, last, mark, disc, heart, env_left>>

\* the loop test found false: run() logs and returns
Exit ==
    /\ pc = "loop"
    /\ ~LoopTest(shutdown_requested)
    /\ pc' = "exited"
    /\ UNCHANGED <<files, config, tracker, shutdown_requested, si, todo, out,
                   last, mark, disc, heart, budget>>

\* where run() stands when process_source has nothing left for source i
AfterSource(i) == IF i < Len(sources) THEN "glob" ELSE "cleanup"

\* process_source evaluates sorted(glob.glob(source.pattern))
GlobSource ==
    /\ pc = "glob"
    /\ LET paths == SortedGlob(fs_dir, sources[si].pattern)
       IN  /\ todo' = paths
           /\ IF paths # <<>>
              THEN pc' = "path" /\ si' = si
              ELSE pc' = AfterSource(si) /\ si' = si + 1
    /\ UNCHANGED <<files, config, tracker, shutdown_requested, out, last,
                   mark, disc, heart, budget>>

\* the path loop of process_source moves on after the head of todo
NextPath ==
    /\ todo' = Tail(todo)
    /\ IF Tail(todo) # <<>>
       THEN pc' = "path" /\ si' = si
       ELSE pc' = AfterSource(si) /\ si' = si + 1

Visiting == pc = "path" /\ todo # <<>>

\* os.stat raises FileNotFoundError: the path is skipped
StatMissing ==
    /\ Visiting
    /\ fs_dir[Head(todo)] = 0
    /\ last' = Step("missing", 0, Head(todo), 0, -1, 0, "FileNotFoundError")
    /\ NextPath
    /\ UNCHANGED <<files, config, tracker, shutdown_requested, out, mark,
                   disc, heart, budget>>

\* os.stat raises PermissionError or another OSError: logged, path skipped
StatError ==
    /\ Visiting
    /\ env_left > 0
    /\ LET path == Head(todo)
           key == fs_dir[path]
       IN  /\ key # 0
           /\ last' = Step("staterr", key, path, Len(fs_data[key]),
                           IF key \in DOMAIN offsets THEN offsets[key] ELSE -1,
                           0, "OSError")
           /\ out' = out \o AtPath(Tag(<<Diag(sources[si].name, "stat failed")>>,
                                       key, -1, <<>>), path)
    /\ env_left' = env_left - 1
    /\ NextPath
    /\ UNCHANGED <<files, config, tracker, shutdown_requested, mark, disc,
                   tick0, owner, heart>>

\* the identity is not in self.offsets: registered, nothing read
Discover ==
    /\ Visiting
    /\ LET path == Head(todo)
           key == fs_dir[path]
       IN  /\ key # 0
           /\ key \notin DOMAIN offsets
           /\ LET st_size == Len(fs_data[key])
              IN  /\ touched_keys' = touched_keys \cup {key}
                  /\ offsets' = (key :> InitialOffset(st_size)) @@ offsets
                  /\ key_to_path' = (key :> path) @@ key_to_path
                  /\ last' = Step("new", key, path, st_size, -1, 0, None)
                  /\ mark' = [mark EXCEPT ![key] = st_size]
                  /\ disc' = [disc EXCEPT ![key] = st_size]
                  /\ owner' = First(owner, key, si)
    /\ NextPath
    /\ UNCHANGED <<files, config, shutdown_requested, out, heart, env_left,
                   tick0>>

\* open() raises: FileNotFoundError is skipped silently, another OSError logged
OpenError(how) ==
    /\ Visiting
    /\ env_left > 0
    /\ LET path == Head(todo)
           key == fs_dir[path]
       IN  /\ key # 0
           /\ key \in DOMAIN offsets
           /\ touched_keys' = touched_keys \cup {key}
           /\ last' = Step("openerr", key, path, Len(fs_data[key]), offsets[key],
                           StartOffset(offsets[key], Len(fs_data[key])), how)
           /\ out' = IF how = "FileNotFoundError" THEN out
                     ELSE out \o AtPath(Tag(<<Diag(sources[si].name, "open failed")>>,
                                            key, -1, <<>>), path)
    /\ env_left' = env_left - 1
    /\ NextPath
    /\ UNCHANGED <<files, config, offsets, key_to_path, shutdown_requested,
                   mark, disc, tick0, owner, heart>>

\* what a read of the file at the head of todo under a fault produces
ReadResult(fault) ==
    LET key == fs_dir[Head(todo)]
        st_size == Len(fs_data[key])
        offset == StartOffset(offsets[key], st_size)
        lines == ReadLines(SubSeq(fs_data[key], offset + 1, st_size))
        r == EmitLines(sources[si], notifications, key, lines, offset, fault, 1)
    IN  [key |-> key, st_size |-> st_size, offset |-> offset, lines |-> lines,
         events |-> AtPath(r.events, Head(todo)), raised |-> r.raised]

\* the tracked file is opened and read to its end; the new offset is stored
ReadFile ==
    /\ Visiting
    /\ fs_dir[Head(todo)] # 0
    /\ fs_dir[Head(todo)] \in DOMAIN offsets
    /\ LET path == Head(todo)
           r == ReadResult(NoFault)
       IN  /\ touched_keys' = touched_keys \cup {r.key}
           /\ out' = out \o r.events
           /\ offsets' = [offsets EXCEPT ![r.key] = Tell(r.offset, r.lines)]
           /\ key_to_path' = [key_to_path EXCEPT ![r.key] = path]
           /\ last' = Step(IF r.st_size < offsets[r.key] THEN "reset" ELSE "read",
                           r.key, path, r.st_size, offsets[r.key], r.offset, None)
           /\ mark' = [mark EXCEPT ![r.key] = r.st_size]
           /\ owner' = First(owner, r.key, si)
    /\ NextPath
    /\ UNCHANGED <<files, config, shutdown_requested, disc, heart, env_left,
                   tick0>>

\* the faults that can strike the read of `lines`: the read of line `at`
\* fails, or the webhook call made for line `at` fails in the way `how`
ReadFaults(source, n, lines) ==
    {[kind |-> "read", at |-> i, how |-> "OSError"] : i \in 1..(Len(lines) + 1)}
    \cup
    {f \in [kind : {"hook"}, at : 1..Len(lines), how : HookFailures] :
        LET line == Rstrip(lines[f.at])
        IN  /\ PassesFilter(source, line)
            /\ ShouldNotify(source, n, detect_level(normalize_line(source, line)))}

\* the read is cut short by an exception: the offset is not stored.  An
\* OSError is caught by process_source and logged; any other exception
\* leaves run() and ends the process.
ReadFault ==
    /\ Visiting
    /\ env_left > 0
    /\ fs_dir[Head(todo)] # 0
    /\ fs_dir[Head(todo)] \in DOMAIN offsets
    /\ \E fault \in ReadFaults(sources[si], notifications, ReadResult(NoFault).lines) :
        LET path == Head(todo)
            r == ReadResult(fault)
        IN  /\ touched_keys' = touched_keys \cup {r.key}
            /\ last' = Step("fault", r.key, path, r.st_size, offsets[r.key],
                            r.offset, r.raised)
            /\ IF r.raised = None
               THEN /\ out' = out \o r.events
                    /\ offsets' = [offsets EXCEPT ![r.key] = Tell(r.offset, r.lines)]
                    /\ key_to_path' = [key_to_path EXCEPT ![r.key] = path]
                    /\ mark' = [mark EXCEPT ![r.key] = r.st_size]
                    /\ owner' = First(owner, r.key, si)
                    /\ NextPath
               ELSE IF r.raised = "OSError"
               THEN /\ out' = out \o r.events
                              \o AtPath(Tag(<<Diag(sources[si].name, "Failed reading")>>,
                                            r.key, -1, <<>>), path)
                    /\ UNCHANGED <<offsets, key_to_path, mark, owner>>
                    /\ NextPath
               ELSE /\ out' = out \o r.events
                    /\ UNCHANGED <<offsets, key_to_path, mark, owner, si, todo>>
                    /\ pc' = "crashed"
    /\ env_left' = env_left - 1
    /\ UNCHANGED <<files, config, shutdown_requested, disc, tick0, heart>>

\* cleanup_stale_offsets
Cleanup ==
    /\ pc = "cleanup"
    /\ LET stale == StaleKeys(offsets, touched_keys)
       IN  /\ offsets' = [key \in DOMAIN offsets \ stale |-> offsets[key]]
           /\ key_to_path' = [key \in DOMAIN key_to_path \ stale |-> key_to_path[key]]
           /\ mark' = [k \in Inodes |-> IF k \in stale THEN -1 ELSE mark[k]]
           /\ disc' = [k \in Inodes |-> IF k \in stale THEN -1 ELSE disc[k]]
    /\ pc' = "health"
    /\ UNCHANGED <<files, config, touched_keys, shutdown_requested, si, todo,
                   out, last, heart, budget>>

\* write_health, then time.sleep(self.update_seconds)
WriteHealth ==
    /\ pc = "health"
    /\ health' = [health EXCEPT ![HEALTH_FILE] =
                     [form |-> "json", status |-> "ok", timestamp |-> now,
                      sources |-> [i \in 1..Len(sources) |-> sources[i].name]]]
    /\ pc' = "loop"
    /\ out' = <<>>
    /\ last' = NoStep
    /\ UNCHANGED <<files, config, tracker, shutdown_requested, si, todo, mark,
                   disc, budget, now, watchdog>>

\* the handler of SIGTERM and SIGINT
Signal ==
    /\ env_left > 0
    /\ pc \notin {"exited", "crashed"}
    /\ shutdown_requested' = TRUE
    /\ env_left' = env_left - 1
    /\ UNCHANGED <<files, config, tracker, pc, si, todo, out, last, mark, disc,
                   tick0, owner, heart>>

----------------------------------------------------------------------------
(* The environment: writers, logrotate, the operator *)

\* run() looks at the file system only in process_source: an event during
\* cleanup_stale_offsets or write_health is an event before the next tick
EnvCan == env_left > 0 /\ pc \in {"loop", "glob", "path"}

\* the history of an inode whose content was replaced or that lost its path
Forget(hist, gone) == [k \in Inodes |-> IF k \in gone THEN -1 ELSE hist[k]]

\* a new directory: inodes it no longer links lose their content
Relink(dir, data) ==
    /\ fs_dir' = dir
    /\ fs_data' = [k \in Inodes |-> IF k \in Linked(dir) THEN data[k] ELSE <<>>]
    /\ mark' = Forget(mark, Inodes \ Linked(dir))
    /\ disc' = Forget(disc, Inodes \ Linked(dir))

EnvFrame ==
    /\ env_left' = env_left - 1
    /\ last' = NoStep
    /\ UNCHANGED <<config, tracker, shutdown_requested, pc, si, todo, out,
                   tick0, owner, heart>>

\* a writer appends to a file
Write(k, chunk) ==
    /\ EnvCan
    /\ k \in Linked(fs_dir)
    /\ Len(fs_data[k]) + Len(chunk) <= MaxLen
    /\ fs_data' = [fs_data EXCEPT ![k] = @ \o chunk]
    /\ UNCHANGED <<fs_dir, mark, disc>>
    /\ EnvFrame

\* a file is truncated in place (copytruncate), and perhaps written again
\* before the forwarder looks
Rewrite(k, content) ==
    /\ EnvCan
    /\ k \in Linked(fs_dir)
    /\ fs_data[k] # <<>>
    /\ fs_data' = [fs_data EXCEPT ![k] = content]
    /\ mark' = Forget(mark, {k})
    /\ disc' = Forget(disc, {k})
    /\ UNCHANGED fs_dir
    /\ EnvFrame

\* a new file is created at a path, on an inode no path links; a file that
\* was at the path is unlinked
Create(p, k, content) ==
    /\ EnvCan
    /\ k \notin Linked(fs_dir)
    /\ Relink([fs_dir EXCEPT ![p] = k], [fs_data EXCEPT ![k] = content])
    /\ EnvFrame

\* rename(p, q)
Rename(p, q) ==
    /\ EnvCan
    /\ p # q
    /\ fs_dir[p] # 0
    /\ Relink([fs_dir EXCEPT ![p] = 0, ![q] = fs_dir[p]], fs_data)
    /\ EnvFrame

\* unlink(p)
Delete(p) ==
    /\ EnvCan
    /\ fs_dir[p] # 0
    /\ Relink([fs_dir EXCEPT ![p] = 0], fs_data)
    /\ EnvFrame

\* time passes while run() sleeps between two ticks
Pass ==
    /\ env_left > 0
    /\ pc = "loop"
    /\ now' = now + 1
    /\ env_left' = env_left - 1
    /\ UNCHANGED <<files, config, tracker, shutdown_requested, pc, si, todo,
                   out, last, mark, disc, tick0, owner, health, watchdog>>

\* the watchdog runs healthcheck.py; artifact is history: the heartbeat file
\* of the forwarder as it was at that time
Healthcheck ==
    /\ env_left > 0
    /\ pc \notin {"exited", "crashed"}
    /\ watchdog' = healthcheck_main(health, now)
                      @@ [at |-> now, artifact |-> health[HEALTH_FILE]]
    /\ env_left' = env_left - 1
    /\ UNCHANGED <<files, config, tracker, shutdown_requested, pc, si, todo,
                   out, last, mark, disc, tick0, owner, health, now>>

Forwarder ==
    \/ TickStart
    \/ Exit
    \/ GlobSource
    \/ StatMissing
    \/ StatError
    \/ Discover
    \/ \E how \in {"FileNotFoundError", "OSError"} : OpenError(how)
    \/ ReadFile
    \/ ReadFault
    \/ Cleanup
    \/ WriteHealth

Environment ==
    \/ Signal
    \/ Pass
    \/ Healthcheck
    \/ \E k \in Inodes : \E chunk \in Chunks : Write(k, chunk)
    \/ \E k \in Inodes : \E content \in NewContents : Rewrite(k, content)
    \/ \E p \in Paths : \E k \in Inodes : \E content \in NewContents : Create(p, k, content)
    \/ \E p \in Paths : \E q \in Paths : Rename(p, q)
    \/ \E p \in Paths : Delete(p)

Next == Forwarder \/ Environment

Spec == Init /\ [][Next]_vars

TypeOK ==
    /\ DOMAIN offsets \subseteq Inodes
    /\ \A k \in DOMAIN offsets : offsets[k] \in 0..MaxLen
    /\ pc \in {"loop", "glob", "path", "cleanup", "health", "exited", "crashed"}

----------------------------------------------------------------------------
(* The classifier on its own: its functions applied to bounded inputs *)

LineWords ==
    {"CRITICAL", "ERROR", "WARN", "WARNING", "INFO", "error", "ERRORS", "x", STAMP}

LinesUpTo(n) == UNION {[1..m -> LineWords] : m \in 0..n}

EmitSources ==
    {Source("src", "*", regex, strip, gate[1], gate[2]) :
        regex \in {NoRegex, {"ERROR", "CRITICAL"}},
        strip \in BOOLEAN,
        gate \in {<<FALSE, {"ERROR", "CRITICAL"}>>,
                  <<TRUE, {"ERROR", "CRITICAL"}>>,
                  <<TRUE, {"WARN", "INFO"}>>}}

EmitNotifications ==
    {Notification("https://ntfy.sh", None, None),
     Notification("https://ntfy.sh", "alerts", None),
     Notification("https://ntfy.sh", "alerts", ""),
     Notification(None, "alerts", None),
     Notification("https://ntfy.sh", None, "http://hook")}

\* the forwarder at rest, with no file in sight
Idle ==
    /\ fs_dir = [p \in Paths |-> 0]
    /\ fs_data = [k \in Inodes |-> <<>>]
    /\ offsets = <<>>
    /\ key_to_path = <<>>
    /\ touched_keys = {}
    /\ shutdown_requested = FALSE
    /\ pc = "line"
    /\ si = 1
    /\ todo = <<>>
    /\ out = <<>>
    /\ last = NoStep
    /\ mark = [k \in Inodes |-> -1]
    /\ disc = [k \in Inodes |-> -1]
    /\ tick0 = [offsets |-> <<>>, key_to_path |-> <<>>]
    /\ owner = [k \in Inodes |-> 0]
    /\ health = [f \in HealthFiles |-> Absent]
    /\ now = 0
    /\ watchdog = NotRun
    /\ env_left = 0
    /\ returned = NoResult

rest == <<files, sources, notifications, given, tracker, shutdown_requested,
          pc, si, todo, out, last, mark, disc, tick0, owner, heart, env_left>>

InitLevel ==
    /\ Idle
    /\ sources \in {<<Source("src", "*", NoRegex, strip, FALSE, {})>> :
                       strip \in BOOLEAN}
    /\ notifications = MainNotification
    /\ given \in LinesUpTo(MaxLine)

\* detect_level(line)
ApplyDetect ==
    /\ returned = NoResult
    /\ returned' = [NoResult EXCEPT !.fn = "detect_level",
                                  !.level = detect_level(given)]
    /\ UNCHANGED rest

\* normalize_line(source, line), then detect_level as emit_line applies it
ApplyNormalize ==
    /\ returned = NoResult
    /\ returned' = [NoResult EXCEPT !.fn = "normalize_line",
                                  !.text = normalize_line(sources[1], given),
                                  !.level = detect_level(normalize_line(sources[1], given))]
    /\ UNCHANGED rest

NextLevel == ApplyDetect \/ ApplyNormalize

SpecLevel == InitLevel /\ [][NextLevel]_vars

InitEmit ==
    /\ Idle
    /\ sources \in {<<src>> : src \in EmitSources}
    /\ notifications \in EmitNotifications
    /\ given \in LinesUpTo(MaxEmitLine)

\* emit_line(source, line), urlopen doing `hook` if it is called
ApplyEmit(hook) ==
    /\ returned = NoResult
    /\ LET r == emit_line(sources[1], notifications, given, hook)
       IN  returned' = [NoResult EXCEPT !.fn = "emit_line",
                                      !.events = r.events,
                                      !.raised = r.raised]
    /\ UNCHANGED rest

NextEmit == \E hook \in {"ok"} \cup HookFailures : ApplyEmit(hook)

SpecEmit == InitEmit /\ [][NextEmit]_vars

----------------------------------------------------------------------------
(* Vocabulary of the properties *)

IsLineEvent(e) == e.kind \in {"console", "webhook"}
IsConsole(e) == e.kind = "console"
IsWebhook(e) == e.kind = "webhook"

\* what the latest visit of a path added to the output
StepOut == SubSeq(out, last.first, Len(out))

\* the visit read the file to its end and stored the offset, no fault struck
ReadDone == last.kind \in {"read", "reset"}

\* offsets at which a line starts in content, for a reader that starts at from
LineStarts(content, from) ==
    {p \in from..(Len(content) - 1) : p = from \/ content[p] = NL}

\* the line of content that starts at offset p, with its terminator if it has one
LineAt(content, p) ==
    LET ends == {j \in (p + 1)..Len(content) : content[j] = NL}
        e == IF ends = {} THEN Len(content)
             ELSE CHOOSE j \in ends : \A i \in ends : j <= i
    IN  SubSeq(content, p + 1, e)

Terminated(line) == line # <<>> /\ line[Len(line)] = NL

\* the words of a line
Words(line) == SelectSeq(line, LAMBDA t : t # NL)

\* a raw line matches the inclusion filter of a source
Matches(src, raw) ==
    \E i \in 1..Len(raw) : \E w \in src.regex : Contains(raw[i], w)

Positions(events) == {events[i].pos : i \in 1..Len(events)}

Increasing(events) ==
    \A i, j \in 1..Len(events) : i < j => events[i].pos < events[j].pos

----------------------------------------------------------------------------
(* C1 *)

\* C1: an identity seen for the first time is registered with the size of the
\* file at that stat and the visit emits nothing; as long as the file is only
\* appended to, nothing that was in it at discovery is ever emitted.
C1_NoReplayOfHistory ==
    /\ last.kind = "new" =>
          /\ last.key \in DOMAIN offsets
          /\ offsets[last.key] = Len(fs_data[last.key])
          /\ StepOut = <<>>
    /\ \A i \in 1..Len(out) :
          (IsLineEvent(out[i]) /\ disc[out[i].key] >= 0)
             => out[i].pos >= disc[out[i].key]

\* a file that held lines when it was discovered has grown, and the growth is emitted
C1_Witness ==
    \E i \in 1..Len(out) :
        /\ IsConsole(out[i])
        /\ disc[out[i].key] > 0
        /\ out[i].pos >= disc[out[i].key]

----------------------------------------------------------------------------
(* C2 *)

\* C2: a tracked file found smaller than its stored offset is read from
\* position 0: the visit hands every line of the current content to emit_line
\* once, in file order, and stores the size as the new offset, so that the
\* content is not read again while the file stays as it is.
C2_ShrunkFileReadWhole ==
    (last.kind = "reset") =>
        LET content == fs_data[last.key]
            src == sources[last.src]
            cons == SelectSeq(StepOut, IsConsole)
            wanted == {p \in LineStarts(content, 0) :
                          PassesFilter(src, Words(LineAt(content, p)))}
        IN  /\ last.start = 0
            /\ Positions(cons) = wanted
            /\ Increasing(cons)
            /\ \A i \in 1..Len(cons) : cons[i].raw = LineAt(content, cons[i].pos)
            /\ offsets[last.key] = Len(content)

\* a file with lines in it was found shorter than the stored offset and was emitted
C2_Witness ==
    /\ last.kind = "reset"
    /\ fs_data[last.key] # <<>>
    /\ last.old > last.size
    /\ \E i \in 1..Len(StepOut) : IsConsole(StepOut[i]) /\ StepOut[i].pos = 0

----------------------------------------------------------------------------
(* C3 *)

\* offset just after the last terminator of content, 0 if it has none
AfterLastLine(content) ==
    LET nls == {j \in 1..Len(content) : content[j] = NL}
    IN  IF nls = {} THEN 0 ELSE CHOOSE j \in nls : \A i \in nls : i <= j

\* C3: when the unread content ends in a line without terminator, the visit
\* does not emit that partial line and stores the offset just after the last
\* complete line.
C3_PartialLineLeftUnread ==
    (ReadDone /\ last.start < last.size /\ ~Terminated(fs_data[last.key])) =>
        /\ offsets[last.key] = Max(last.start, AfterLastLine(fs_data[last.key]))
        /\ \A i \in 1..Len(StepOut) :
              IsLineEvent(StepOut[i]) => Terminated(StepOut[i].raw)

----------------------------------------------------------------------------
(* C4 *)

\* the source takes the line: it has no filter, or the filter matches
Wanted(src, raw) == src.regex = NoRegex \/ Matches(src, Words(raw))

\* the source asks for a webhook call for the line
Notified(src, raw) ==
    /\ src.notifications_enabled
    /\ ntfy_url(notifications) # None
    /\ detect_level(normalize_line(src, Words(raw))) \in src.notification_levels

\* the file was tracked and read to its end, and since then whole lines, and
\* nothing else, were appended to it
GrownByLines ==
    /\ last.kind = "read"
    /\ last.mark >= 0
    /\ last.mark = 0 \/ fs_data[last.key][last.mark] = NL
    /\ last.mark = last.size \/ fs_data[last.key][last.size] = NL

\* C4: when whole lines were appended to a tracked file and no error occurs,
\* the visit prints one console event for each appended line its source takes,
\* in file order, and calls the webhook once, right after the console event,
\* for each of those lines whose severity is in the trigger set of a source
\* with notifications enabled and an endpoint, and for no other line.
C4_AppendedLinesEmitted ==
    GrownByLines =>
        LET content == fs_data[last.key]
            src == sources[last.src]
            cons == SelectSeq(StepOut, IsConsole)
            hooks == SelectSeq(StepOut, IsWebhook)
            lines == LineStarts(content, last.mark)
            taken == {p \in lines : Wanted(src, LineAt(content, p))}
        IN  /\ Positions(cons) = taken
            /\ Increasing(cons)
            /\ Positions(hooks) = {p \in taken : Notified(src, LineAt(content, p))}
            /\ Increasing(hooks)
            /\ \A i \in 1..Len(StepOut) :
                  /\ IsLineEvent(StepOut[i])
                  /\ StepOut[i].raw = LineAt(content, StepOut[i].pos)
                  /\ IsWebhook(StepOut[i]) =>
                        /\ i > 1
                        /\ IsConsole(StepOut[i - 1])
                        /\ StepOut[i - 1].pos = StepOut[i].pos

\* two lines were appended: one is only printed, the other is also posted
C4_Witness ==
    /\ GrownByLines
    /\ \E i, j \in 1..Len(StepOut) :
          /\ IsWebhook(StepOut[i])
          /\ IsConsole(StepOut[j])
          /\ StepOut[j].pos # StepOut[i].pos
          /\ \A h \in 1..Len(StepOut) :
                IsWebhook(StepOut[h]) => StepOut[h].pos # StepOut[j].pos

----------------------------------------------------------------------------
(* C7 *)

\* C7: a source with an inclusion filter prints and posts nothing for a line
\* the filter does not match, prints every line it does match, the filter
\* being applied to the raw line, and the offset moves past the dropped lines.
C7_FilterDropsLine ==
    (ReadDone /\ sources[last.src].regex # NoRegex) =>
        LET content == fs_data[last.key]
            src == sources[last.src]
        IN  /\ \A p \in LineStarts(content, last.start) :
                  LET events == {i \in 1..Len(StepOut) : StepOut[i].pos = p}
                  IN  IF Matches(src, Words(LineAt(content, p)))
                      THEN Cardinality({i \in events : IsConsole(StepOut[i])}) = 1
                      ELSE events = {}
            /\ offsets[last.key] = Len(content)

\* the source dropped a line whose severity is in its trigger set
C7_Witness ==
    /\ ReadDone
    /\ sources[last.src].regex # NoRegex
    /\ StepOut # <<>>
    /\ \E p \in LineStarts(fs_data[last.key], last.start) :
          /\ ~Matches(sources[last.src], Words(LineAt(fs_data[last.key], p)))
          /\ Notified(sources[last.src], LineAt(fs_data[last.key], p))
          /\ offsets[last.key] > p

----------------------------------------------------------------------------
(* C8 *)

\* C8: a visit of a tracked file that has not changed since it was last read
\* to its end prints nothing, posts nothing and leaves the offset as it was.
C8_IdleTickIdempotent ==
    (/\ last.kind \in {"read", "reset", "openerr", "fault"}
     /\ last.mark >= 0
     /\ last.mark = last.size) =>
        /\ \A i \in 1..Len(StepOut) : ~IsLineEvent(StepOut[i])
        /\ last.key \in DOMAIN offsets
        /\ offsets[last.key] = last.old

\* a file that was read after it grew is visited again, unchanged
C8_Witness ==
    /\ last.kind = "read"
    /\ last.mark = last.size
    /\ disc[last.key] >= 0
    /\ last.size > disc[last.key]
    /\ StepOut = <<>>

----------------------------------------------------------------------------
(* C9 *)

\* identity A was tracked at path p when the tick began, the tick did not see
\* A, and saw at p an identity B it did not track, unchanged since it was seen
Rotated(A, p, B) ==
    /\ A \in DOMAIN tick0.offsets
    /\ tick0.key_to_path[A] = p
    /\ A \notin touched_keys
    /\ B = fs_dir[p]
    /\ B \notin {0, A}
    /\ B \notin DOMAIN tick0.offsets
    /\ B \in touched_keys
    /\ B \in DOMAIN key_to_path
    /\ key_to_path[B] = p
    /\ disc[B] = Len(fs_data[B])

\* C9: when the file A tracked at a path was replaced by a file B at that
\* path and no glob matches A any more, the tick registers B with its size
\* as offset, emits nothing for B, and has removed A when it ends.
C9_RotationAtPath ==
    (pc = "health") =>
        \A A \in Inodes : \A p \in Paths : \A B \in Inodes :
            Rotated(A, p, B) =>
                /\ A \notin DOMAIN offsets
                /\ A \notin DOMAIN key_to_path
                /\ B \in DOMAIN offsets
                /\ offsets[B] = Len(fs_data[B])
                /\ \A i \in 1..Len(out) : IsLineEvent(out[i]) => out[i].key # B

\* a tick ends after it found a file with content in place of a tracked one
C9_Witness ==
    /\ pc = "health"
    /\ \E A \in Inodes : \E p \in Paths : \E B \in Inodes :
          Rotated(A, p, B) /\ fs_data[B] # <<>> /\ tick0.offsets[A] > 0

----------------------------------------------------------------------------
(* C10 *)

\* C10: when stat, open or the read of a tracked file fails with an I/O
\* error, the stored offset is left as it was and the identity is still
\* tracked when the tick ends.
C10_ErrorKeepsFileTracked ==
    /\ (/\ last.kind \in {"staterr", "openerr", "fault"}
        /\ last.raised = "OSError"
        /\ last.old >= 0) =>
           /\ last.key \in DOMAIN offsets
           /\ offsets[last.key] = last.old
    /\ (pc = "health") =>
          \A k \in DOMAIN tick0.offsets :
              (/\ k \in Linked(fs_dir)
               /\ \E i \in 1..Len(out) :
                     out[i].kind = "diag" /\ out[i].key = k) =>
                 k \in DOMAIN offsets

----------------------------------------------------------------------------
(* C5 *)

\* an endpoint is configured: an override URL, or a base URL and a topic
Endpoint(n) ==
    \/ n.ntfy_url_override \notin {None, ""}
    \/ n.ntfy_base_url \notin {None, ""} /\ n.topic \notin {None, ""}

\* C5: emit_line calls the webhook for an event if and only if the source has
\* notifications enabled, an endpoint is configured and the severity of the
\* event is in the trigger set of the source; when one of the three is
\* missing there is no call, no error is logged and none is raised.
C5_NotificationGate ==
    (returned.fn = "emit_line") =>
        LET src == sources[1]
            cons == SelectSeq(returned.events, IsConsole)
            hooks == SelectSeq(returned.events, IsWebhook)
        IN  /\ Len(cons) <= 1
            /\ Len(hooks) <= Len(cons)
            /\ \A i \in 1..Len(cons) :
                  LET gate == /\ src.notifications_enabled
                              /\ Endpoint(notifications)
                              /\ cons[i].level \in src.notification_levels
                  IN  /\ (Len(hooks) = 1) <=> gate
                      /\ ~gate => /\ returned.events = cons
                                  /\ returned.raised = None

\* an event of a source with notifications enabled and an endpoint, whose
\* severity is outside the trigger set, was printed and not posted
C5_Witness ==
    /\ returned.fn = "emit_line"
    /\ sources[1].notifications_enabled
    /\ Endpoint(notifications)
    /\ Len(returned.events) = 1
    /\ returned.events[1].level \notin sources[1].notification_levels

----------------------------------------------------------------------------
(* C6 *)

RECURSIVE FirstOf(_, _)
\* the first word of a line that is, in upper case, one of the keywords
FirstOf(keywords, words) ==
    IF words = <<>> THEN None
    ELSE IF Upper(Head(words)) \in keywords THEN Upper(Head(words))
    ELSE FirstOf(keywords, Tail(words))

Severity(keyword) ==
    IF keyword = None THEN "INFO"
    ELSE IF keyword = "WARNING" THEN "WARN"
    ELSE keyword

\* C6 as stated: detect_level returns the severity of the first of CRITICAL,
\* ERROR, WARN, WARNING in the line, and INFO when there is none: no other
\* word, the word INFO included, has a say.
C6_FirstOfFourKeywords ==
    (returned.fn = "detect_level") =>
        returned.level = Severity(FirstOf({"CRITICAL", "ERROR", "WARN", "WARNING"}, given))

\* C6: detect_level returns the severity of the first whole word of the line
\* that is, whatever its case, one of CRITICAL, ERROR, WARN, WARNING, INFO
\* (WARNING gives WARN), and INFO when there is none: a word INFO ahead of
\* the other keywords decides.
C6_FirstOfFiveKeywords ==
    (returned.fn = "detect_level") =>
        returned.level =
            Severity(FirstOf({"CRITICAL", "ERROR", "WARN", "WARNING", "INFO"}, given))

\* a line that has the word INFO ahead of another keyword is given INFO
C6_Witness ==
    /\ returned.fn = "detect_level"
    /\ returned.level = "INFO"
    /\ \E i \in 1..Len(given) :
          Upper(given[i]) \in {"CRITICAL", "ERROR", "WARN", "WARNING"}

----------------------------------------------------------------------------
(* C11 *)

\* the latest visit made a webhook call that failed
HookFailed ==
    /\ last.kind = "fault"
    /\ \E i \in 1..Len(StepOut) : IsWebhook(StepOut[i]) /\ StepOut[i].result # "ok"

\* C11: when a webhook call fails, in whatever way, the failure is logged and
\* swallowed: nothing is raised, the call is made once, the lines that follow
\* in the file are emitted in the same visit, the offset moves to the end of
\* the file, and the tick goes on with the next path or source.
C11_WebhookFailureSwallowed ==
    HookFailed =>
        LET content == fs_data[last.key]
            src == sources[last.src]
            cons == SelectSeq(StepOut, IsConsole)
        IN  /\ last.raised = None
            /\ pc # "crashed"
            /\ offsets[last.key] = Len(content)
            /\ Positions(cons) = {p \in LineStarts(content, last.start) :
                                     Wanted(src, LineAt(content, p))}
            /\ \A i, j \in 1..Len(StepOut) :
                  (IsWebhook(StepOut[i]) /\ IsWebhook(StepOut[j])
                   /\ StepOut[i].pos = StepOut[j].pos) => i = j

----------------------------------------------------------------------------
(* C12 *)

\* C12: the shutdown flag is looked at only by the loop test.  run() returns
\* only from the loop test, with the flag set; once the flag is set no tick
\* begins; a tick under way when the flag is set goes on through every
\* source in order, then prunes the stale identities, then writes the
\* heartbeat, and only then comes back to the loop test.
C12_ShutdownAtLoopTop ==
    [][/\ (pc' = "exited" /\ pc # "exited") =>
              /\ pc = "loop"
              /\ shutdown_requested
              /\ UNCHANGED <<offsets, key_to_path, heart>>
       /\ (shutdown_requested /\ pc = "loop") => pc' \in {"loop", "exited"}
       /\ (shutdown_requested /\ pc \in {"glob", "path"}) =>
              /\ pc' \in {"glob", "path", "cleanup", "crashed"}
              /\ si' \in {si, si + 1}
       /\ (pc' = "cleanup" /\ pc # "cleanup") =>
              /\ pc \in {"glob", "path"}
              /\ si' = Len(sources) + 1
       /\ (pc' = "health" /\ pc # "health") =>
              /\ pc = "cleanup"
              /\ DOMAIN offsets' \subseteq touched_keys
       /\ (pc' = "loop" /\ pc # "loop") =>
              /\ pc = "health"
              /\ health'[HEALTH_FILE].form = "json"
      ]_vars

\* a request was recorded while the first tick was under way, and the tick
\* has gone on to the point of writing its heartbeat
C12_Witness ==
    /\ shutdown_requested
    /\ pc = "health"
    /\ health[HEALTH_FILE] = Absent
    /\ touched_keys # {}

----------------------------------------------------------------------------
(* C13 *)

\* C13: the watchdog reports failure if and only if the heartbeat file the
\* forwarder writes at the end of every tick is missing, malformed, or older
\* than the maximum age: run after a tick has just ended, it reports healthy.
C13_WatchdogReadsHeartbeat ==
    (watchdog.code # -1) =>
        ((watchdog.code = 1) <=>
            \/ watchdog.artifact.form \in {"absent", "malformed", "no_timestamp"}
            \/ watchdog.at - watchdog.artifact.timestamp > MAX_AGE_SECONDS)

----------------------------------------------------------------------------
(* C14 *)

\* C14: when cleanup_stale_offsets has run, every tracked identity was
\* touched in the tick: an identity tracked when the tick began and not
\* touched in it is gone from offsets and key_to_path, and every touched
\* identity is still tracked.
C14_TrackedWereTouched ==
    (pc = "health") =>
        /\ DOMAIN offsets \subseteq touched_keys
        /\ DOMAIN key_to_path = DOMAIN offsets
        /\ \A k \in DOMAIN tick0.offsets :
              k \notin touched_keys => k \notin DOMAIN offsets
        /\ \A k \in touched_keys : k \in DOMAIN offsets

\* a tick ends that touched one tracked identity and pruned another
C14_Witness ==
    /\ pc = "health"
    /\ \E k \in DOMAIN tick0.offsets : k \notin touched_keys
    /\ \E k \in DOMAIN tick0.offsets : k \in touched_keys /\ k \in DOMAIN offsets

----------------------------------------------------------------------------
(* C15 *)

\* a source reads to its end a file that an earlier source of the same tick
\* took first, and that was only appended to since it was last read
LaterSource ==
    /\ ReadDone
    /\ owner[last.key] \notin {0, last.src}
    /\ last.mark >= 0

\* C15 as stated: one offset is kept for a file that two sources match, and
\* the source that comes later in the tick emits nothing for the file.
C15_LaterSourceEmitsNothing ==
    LaterSource => \A i \in 1..Len(StepOut) : ~IsLineEvent(StepOut[i])

\* C15: one offset is kept for a file that two sources match and every pass
\* reads from it: the source that comes later in the tick emits nothing of
\* what was in the file when it was last read to its end; it emits, under
\* its own name, filter and notification rules, the lines appended since
\* then, if there are any, and moves the offset to the end of the file.
C15_LaterSourceTakesAppended ==
    LaterSource =>
        LET content == fs_data[last.key]
            src == sources[last.src]
            cons == SelectSeq(StepOut, IsConsole)
            hooks == SelectSeq(StepOut, IsWebhook)
            taken == {p \in LineStarts(content, last.mark) :
                         Wanted(src, LineAt(content, p))}
        IN  /\ last.old = last.mark
            /\ last.start = last.mark
            /\ \A i \in 1..Len(StepOut) :
                  IsLineEvent(StepOut[i]) =>
                      /\ StepOut[i].pos >= last.mark
                      /\ StepOut[i].src = src.name
            /\ Positions(cons) = taken
            /\ Increasing(cons)
            /\ Positions(hooks) = {p \in taken : Notified(src, LineAt(content, p))}
            /\ offsets[last.key] = Len(content)
            /\ (last.size = last.mark) => StepOut = <<>>

\* the first source read the file, a line was appended, and the later source
\* of the same tick emitted that line
C15_Witness ==
    /\ LaterSource
    /\ last.size > last.mark
    /\ \E i \in 1..Len(out) :
          /\ i < last.first
          /\ IsConsole(out[i])
          /\ out[i].key = last.key
          /\ out[i].src = sources[owner[last.key]].name
    /\ \E i \in 1..Len(StepOut) : IsConsole(StepOut[i])

----------------------------------------------------------------------------
(* C16 *)

\* C16: the stored offset of an identity that stays tracked never decreases,
\* except in a visit that finds the file smaller than the stored offset: that
\* visit reads from 0 and stores the size of the file.
C16_OffsetMonotonic ==
    [][\A k \in DOMAIN offsets \cap DOMAIN offsets' :
          offsets'[k] < offsets[k] =>
              /\ last'.kind \in {"reset", "fault"}
              /\ last'.raised = None
              /\ last'.key = k
              /\ last'.old = offsets[k]
              /\ last'.size < offsets[k]
              /\ last'.start = 0
              /\ offsets'[k] = last'.size
      ]_vars

\* a tracked file was found shorter than its offset and the offset went down
\* to the size of the new content
C16_Witness ==
    /\ last.kind = "reset"
    /\ last.key \in DOMAIN offsets
    /\ offsets[last.key] < last.old
    /\ offsets[last.key] > 0

----------------------------------------------------------------------------
(* C17 *)

\* a file tracked at another path when the tick began, and only appended to
\* since it was last read to its end, is read at the path it has now
MovedFile ==
    /\ ReadDone
    /\ last.key \in DOMAIN tick0.offsets
    /\ tick0.key_to_path[last.key] # last.path
    /\ last.mark >= 0

\* an identity is discovered at the path at which another identity, which
\* now has another path, was tracked when the tick began
NewFileAtOldPath(A) ==
    /\ last.kind = "new"
    /\ pc # "health"
    /\ A \in Linked(fs_dir)
    /\ A \in DOMAIN tick0.offsets
    /\ A # last.key
    /\ tick0.key_to_path[A] = last.path

\* C17: offsets belong to the inode, not to the path.  A tracked file that
\* was renamed to a path some source matches is read, at its new path, from
\* the stored offset on: the lines appended to it are emitted, no line before
\* the offset is, and the identity is now known under the new path.  A new
\* inode found at the old path is registered as an identity of its own, with
\* the size of its file as offset, and the offset of the renamed file is kept.
C17_OffsetFollowsInode ==
    /\ MovedFile =>
          LET content == fs_data[last.key]
              src == sources[last.src]
              cons == SelectSeq(StepOut, IsConsole)
          IN  /\ last.kind = "read"
              /\ last.start = last.old
              /\ last.start = last.mark
              /\ Positions(cons) = {p \in LineStarts(content, last.mark) :
                                       Wanted(src, LineAt(content, p))}
              /\ Increasing(cons)
              /\ offsets[last.key] = Len(content)
              /\ key_to_path[last.key] = last.path
    /\ \A A \in Inodes :
          NewFileAtOldPath(A) =>
              /\ StepOut = <<>>
              /\ offsets[last.key] = last.size
              /\ key_to_path[last.key] = last.path
              /\ A \in DOMAIN offsets
              /\ A \notin touched_keys => offsets[A] = tick0.offsets[A]

\* a tracked file grew and was renamed, and the line appended to it is
\* emitted from its new path
C17_Witness ==
    /\ MovedFile
    /\ last.old > 0
    /\ last.size > last.old
    /\ \E i \in 1..Len(StepOut) : IsConsole(StepOut[i]) /\ StepOut[i].pos = last.old

----------------------------------------------------------------------------
(* C18 *)

\* position of a source in the configuration
SourceIndex(name) == CHOOSE i \in 1..Len(sources) : sources[i].name = name

\* path p comes before path q in the alphabet
Alphabetical(p, q) == <<p, q>> \in {<<"a", "b">>}

\* event e has its place before event f in a tick: by source, then by path,
\* then by position in the file, then console before webhook
Precedes(e, f) ==
    LET se == SourceIndex(e.src)
        sf == SourceIndex(f.src)
    IN  \/ se < sf
        \/ /\ se = sf
           /\ \/ Alphabetical(e.path, f.path)
              \/ /\ e.path = f.path
                 /\ \/ e.pos < f.pos
                    \/ e.pos = f.pos /\ IsConsole(e) /\ IsWebhook(f)

\* the events of a tick are in order, and a webhook call comes right after
\* the console event of its line
InOrder(events) ==
    /\ \A i, j \in 1..Len(events) :
          (i < j /\ IsLineEvent(events[i]) /\ IsLineEvent(events[j]))
             => Precedes(events[i], events[j])
    /\ \A i \in 1..Len(events) :
          IsWebhook(events[i]) =>
              /\ i > 1
              /\ IsConsole(events[i - 1])
              /\ events[i - 1].src = events[i].src
              /\ events[i - 1].path = events[i].path
              /\ events[i - 1].pos = events[i].pos

\* C18: the events of a tick come source by source in configured order,
\* within a source path by path in lexicographic order, within a file line by
\* line in file order, and for a line the console event comes first and the
\* webhook call right after it.  What a visit adds is a function of the file,
\* the offset and the configuration, so the same history gives the same events.
C18_DeterministicOrder ==
    [][/\ InOrder(out')
       /\ (pc = "path" /\ todo' # todo /\ last'.kind \in {"read", "reset"}) =>
              out' = out \o ReadResult(NoFault).events
       /\ (pc' = "path" /\ todo' # todo) =>
              \A i, j \in 1..Len(todo') : i < j => Alphabetical(todo'[i], todo'[j])
      ]_vars

\* a tick has emitted, for one source, lines of two files, one of them posted
C18_Witness ==
    \E i, j \in 1..Len(out) :
        /\ i < j
        /\ IsConsole(out[i])
        /\ IsWebhook(out[j])
        /\ out[i].src = out[j].src
        /\ out[i].path # out[j].path

----------------------------------------------------------------------------
(* C19 *)

\* the line has the shape <month> <day> <time> <hostname> <rest>
SyslogShaped(line) == Len(line) >= 3 /\ line[1] = STAMP

\* C19: normalize_line returns the line without its hostname token, and
\* otherwise as it is, when stripping is enabled and the line has the syslog
\* shape; in every other case it returns the line unchanged.  The severity is
\* that of the normalized text: whatever word stands as hostname, the
\* severity is the same.
C19_HostnameStripped ==
    (returned.fn = "normalize_line") =>
        LET text == returned.text
            enabled == sources[1].strip_syslog_hostname
        IN  /\ IF enabled /\ SyslogShaped(given)
               THEN /\ Len(text) = Len(given) - 1
                    /\ text[1] = given[1]
                    /\ \A i \in 2..Len(text) : text[i] = given[i + 1]
               ELSE text = given
            /\ returned.level =
                  Severity(FirstOf({"CRITICAL", "ERROR", "WARN", "WARNING", "INFO"}, text))
            /\ (enabled /\ SyslogShaped(given)) =>
                  \A host \in LineWords :
                      detect_level(normalize_line(sources[1],
                                                  [given EXCEPT ![2] = host]))
                         = returned.level

\* a line whose hostname is a severity keyword was stripped of it and is
\* classified by the rest
C19_Witness ==
    /\ returned.fn = "normalize_line"
    /\ sources[1].strip_syslog_hostname
    /\ SyslogShaped(given)
    /\ given[2] = "CRITICAL"
    /\ given[3] = "WARNING"
    /\ returned.text = <<STAMP, "WARNING">>
    /\ returned.level = "WARN"

----------------------------------------------------------------------------
(* C20 *)

\* the content of a tracked file was replaced since the file was last read,
\* and the file is now at least as long as the stored offset
RewrittenNotShorter ==
    /\ ReadDone
    /\ last.mark = -1
    /\ last.old >= 0
    /\ last.size >= last.old

\* C20: a rotation is inferred from size < stored offset and from nothing
\* else.  When the content of a tracked file was replaced and the file is not
\* shorter than the stored offset, the visit does not reset the offset: it
\* reads from the stored offset on and emits nothing of the new content that
\* lies below it; and no visit that finds size >= offset, now or later, emits
\* a line that starts below the offset it found.
C20_RewriteNotDetected ==
    /\ RewrittenNotShorter =>
          LET content == fs_data[last.key]
              src == sources[last.src]
              cons == SelectSeq(StepOut, IsConsole)
          IN  /\ last.kind = "read"
              /\ last.start = last.old
              /\ Positions(cons) = {p \in LineStarts(content, last.old) :
                                       Wanted(src, LineAt(content, p))}
              /\ offsets[last.key] = Len(content)
    /\ (last.kind \in {"read", "fault", "openerr"} /\ last.size >= last.old) =>
          /\ last.start = last.old
          /\ \A i \in 1..Len(StepOut) :
                IsLineEvent(StepOut[i]) => StepOut[i].pos >= last.old

\* a file was rewritten and grew beyond the stored offset: the visit emits
\* the line beyond the offset and not the new line below it
C20_Witness ==
    /\ RewrittenNotShorter
    /\ last.old > 0
    /\ last.size > last.old
    /\ Wanted(sources[last.src], LineAt(fs_data[last.key], 0))
    /\ \E i \in 1..Len(StepOut) : IsConsole(StepOut[i]) /\ StepOut[i].pos = last.old
    /\ \A i \in 1..Len(out) : IsLineEvent(out[i]) => out[i].pos >= last.old

====
